---- MODULE Spec2Model ----
(***************************************************************************)
(* Havsyn order-book visualizer: the ingestion pipeline of the multi-      *)
(* instrument App component (src/unnamed/part_000) and of the single-      *)
(* instrument App component (src/src/App.jsx).                             *)
(*                                                                         *)
(* Scheduling is the browser's: every callback (a React effect, a          *)
(* WebSocket event handler, a timer, a click handler) runs to completion   *)
(* before the next one starts, so each callback is one action.             *)
(***************************************************************************)
EXTENDS Integers, Sequences, FiniteSets, TLC

\* ---------------------------------------------------------------- bounds

MaxSessions == 3      \* session effects run in one behaviour
MaxMsgs     == 2      \* transport deliveries in one behaviour
MaxCalls    == 2      \* engine calls in one behaviour
MaxPrefill  == 1      \* longest short backlog the processor harness starts from
NumSymbols  == 2      \* instruments the selector offers in the model

\* ------------------------------------------------------ program constants

QueueCapacity == 100  \* part_000:90   length > 100
KeepCount     == 50   \* part_000:91   slice(-50)
SubscribeDepth == 25  \* part_000:165  depth: 25

Symbols  == 1..NumSymbols
Sessions == 1..MaxSessions

\* Optional numbers (null | number) are sequences of length 0 or 1.
Null    == << >>
Some(v) == << v >>

VARIABLES
    alive,          \* the component is mounted
    sdkReady,       \* useState sdkReady (App.jsx: initWasm() has resolved)
    symbol,         \* useState symbol
    effectSymbol,   \* the symbol the last session effect ran with, 0: never ran
    nSessions,      \* session effects run so far
    mounted,        \* [session -> BOOLEAN]   the effect closure's `mounted`
    wsPhase,        \* [session -> "none" | "connecting" | "open" | "closed"]
    wsCloseCalled,  \* [session -> BOOLEAN]   ws.close() was called
    subs,           \* [session -> Nat]       subscription requests sent
    lastSub,        \* the subscription request sent last (NoSub: none yet)
    bookState,      \* [session -> "none" | "live" | "freed" | "refreed"]  the
                    \* engine handle; "refreed": free() was called on it twice
    wsRef,          \* wsRef.current: a session, 0 for null
    bookRef,        \* bookRef.current: a session's handle, 0 for null
    queue,          \* messageQueueRef.current
    processing,     \* processingRef.current
    timers,         \* pending setTimeout(processNextMessage, 0), oldest first
    connected, bids, asks, spread, midPrice, updateCount, checksumValid,
    nextMsg,        \* id the next delivered message gets (arrival order)
    applied,        \* history: the engine calls made, oldest first
    lastOut,        \* history: what the last engine call returned or threw
    prevCls,        \* history: the outcome class of the engine call before it
    discarded,      \* history: ids dropped by truncation or by a queue reset
    rejected,       \* history: ids of deliveries a retired session's handler refused
    reselected      \* history: the active instrument was selected again

refs   == << wsRef, bookRef, queue, processing, timers >>
pubs   == << connected, bids, asks, spread, midPrice, updateCount, checksumValid >>
sess   == << nSessions, mounted, wsPhase, wsCloseCalled, subs, lastSub,
            bookState >>
hist   == << nextMsg, applied, lastOut, prevCls, discarded, rejected, reselected >>
vars   == << alive, sdkReady, symbol, effectSymbol, sess, refs, pubs, hist >>

\* ------------------------------------------------------------ the engine

Level(p, q) == [price |-> p, qty |-> q]

\* Level lists the engine may return (descending bids, ascending asks).
BidLists == { << >>, << Level(100, 2), Level(98, 1) >> }
AskLists == { << Level(102, 3) >> }

BestPrice(levels) == IF Len(levels) = 0 THEN 0 ELSE levels[1].price

\* The engine's spread and mid price of a book (spec section 3).
EngineSpread(b, a) ==
    IF Len(b) > 0 /\ Len(a) > 0 THEN Some(BestPrice(a) - BestPrice(b)) ELSE Null
EngineMid(b, a) ==
    IF Len(b) > 0 /\ Len(a) > 0 THEN Some((BestPrice(a) + BestPrice(b)) \div 2) ELSE Null

NoLevels == << >>

\* What one apply_and_get(msg, 10) call may do: return a result object, return
\* nothing, or throw.  The engine is opaque, so the outcome is drawn per call.
Result(t, b, a) ==
    [kind |-> "result", msg_type |-> t, bids |-> b, asks |-> a,
     spread |-> EngineSpread(b, a), mid_price |-> EngineMid(b, a),
     hasMessage |-> FALSE, includesChecksum |-> FALSE]
FullBids == << Level(100, 2), Level(98, 1) >>
FullAsks == << Level(102, 3) >>
ResultOutcomes ==
    { Result("update", b, a) : b \in BidLists, a \in AskLists }
      \cup { Result("snapshot", FullBids, FullAsks), Result("heartbeat", FullBids, FullAsks) }
NullOutcome ==
    [kind |-> "null", msg_type |-> "", bids |-> NoLevels, asks |-> NoLevels,
     spread |-> Null, mid_price |-> Null,
     hasMessage |-> FALSE, includesChecksum |-> FALSE]
ThrowOutcome(hm, ic) ==
    [kind |-> "throw", msg_type |-> "", bids |-> NoLevels, asks |-> NoLevels,
     spread |-> Null, mid_price |-> Null,
     hasMessage |-> hm, includesChecksum |-> ic]
ThrowOutcomes == { ThrowOutcome(TRUE, TRUE), ThrowOutcome(TRUE, FALSE),
                   ThrowOutcome(FALSE, FALSE) }
Outcomes == ResultOutcomes \cup {NullOutcome} \cup ThrowOutcomes
NoOutcome ==
    [kind |-> "none", msg_type |-> "", bids |-> NoLevels, asks |-> NoLevels,
     spread |-> Null, mid_price |-> Null,
     hasMessage |-> FALSE, includesChecksum |-> FALSE]

\* --------------------------------------------------- the message queue

\* Array.prototype.slice(start) for any integer start: a negative start counts
\* from the end and is clamped to the whole array.
Slice(q, start) ==
    LET from == IF start < 0
                THEN (IF Len(q) + start < 0 THEN 0 ELSE Len(q) + start)
                ELSE (IF start > Len(q) THEN Len(q) ELSE start)
    IN  SubSeq(q, from + 1, Len(q))

\* Faulty variants of queueMessage: truncation already at 100 entries, and no
\* truncation at all.
QueueAfterPushAtCapacity(q, m) ==
    LET q1 == Append(q, m)
    IN  IF Len(q1) >= QueueCapacity THEN Slice(q1, 0 - KeepCount) ELSE q1
QueueAfterPushUnbounded(q, m) == Append(q, m)

\* queueMessage, the queue half: push, then keep the last 50 when over 100.
QueueAfterPush(q, m) ==
    LET q1 == Append(q, m)
    IN  IF Len(q1) > QueueCapacity THEN Slice(q1, 0 - KeepCount) ELSE q1

\* Faulty variant of the dequeue: pop() instead of shift().
ShiftFromEnd(q) == [msg |-> q[Len(q)], rest |-> SubSeq(q, 1, Len(q) - 1)]

\* Array.prototype.shift on a non-empty array.
Shift(q) == [msg |-> Head(q), rest |-> Tail(q)]

\* ------------------------------------------------ the sequential processor

\* Faulty variant of the early returns: the empty-queue test is off by one.
CanProcessNeedsBacklog(proc, q, book) == ~proc /\ Len(q) > 1 /\ book # 0

\* The three early returns of processNextMessage.
CanProcess(proc, q, book) == ~proc /\ Len(q) # 0 /\ book # 0

\* result && (result.msg_type === 'update' || result.msg_type === 'snapshot')
IsRecognized(out) ==
    out.kind = "result" /\ (out.msg_type = "update" \/ out.msg_type = "snapshot")

\* Faulty variant of the catch block: every thrown error counts as a checksum
\* failure.
IsChecksumErrorAnyThrow(out) == out.kind = "throw"

\* e.message && e.message.includes('Checksum')
IsChecksumError(out) ==
    out.kind = "throw" /\ out.hasMessage /\ out.includesChecksum

\* The outcome classes of the processor.
Classify(out) ==
    IF IsRecognized(out) THEN "recognized"
    ELSE IF IsChecksumError(out) THEN "checksum" ELSE "ignored"

ClassOf(out) == IF out.kind = "none" THEN "none" ELSE Classify(out)

\* levels.map(l => [l.price, l.qty])
MapLevels(levels) == [i \in 1..Len(levels) |-> << levels[i].price, levels[i].qty >>]

Pub == [connected |-> connected, bids |-> bids, asks |-> asks, spread |-> spread,
        midPrice |-> midPrice, updateCount |-> updateCount,
        checksumValid |-> checksumValid]

\* Faulty variant of the try/catch: a checksum failure also clears the book.
PublishClearsBookOnChecksum(p, out) ==
    IF IsRecognized(out)
    THEN [p EXCEPT !.bids = MapLevels(out.bids),
                   !.asks = MapLevels(out.asks),
                   !.spread = out.spread,
                   !.midPrice = out.mid_price,
                   !.updateCount = @ + 1,
                   !.checksumValid = TRUE]
    ELSE IF IsChecksumError(out)
         THEN [p EXCEPT !.checksumValid = FALSE, !.bids = << >>, !.asks = << >>]
         ELSE p

\* Faulty variant of the try block: spread and mid price are only replaced
\* when the result has both sides of the book.
PublishSkipsSpread(p, out) ==
    IF IsRecognized(out)
    THEN [p EXCEPT !.bids = MapLevels(out.bids),
                   !.asks = MapLevels(out.asks),
                   !.spread = IF out.spread = Null THEN @ ELSE out.spread,
                   !.midPrice = IF out.mid_price = Null THEN @ ELSE out.mid_price,
                   !.updateCount = @ + 1,
                   !.checksumValid = TRUE]
    ELSE IF IsChecksumError(out)
         THEN [p EXCEPT !.checksumValid = FALSE]
         ELSE p

\* Faulty variant of the catch block: a checksum failure is counted as an
\* update.
PublishCountsFailures(p, out) ==
    IF IsRecognized(out)
    THEN [p EXCEPT !.bids = MapLevels(out.bids),
                   !.asks = MapLevels(out.asks),
                   !.spread = out.spread,
                   !.midPrice = out.mid_price,
                   !.updateCount = @ + 1,
                   !.checksumValid = TRUE]
    ELSE IF IsChecksumError(out)
         THEN [p EXCEPT !.checksumValid = FALSE, !.updateCount = @ + 1]
         ELSE p

\* Faulty variant of the try block: the levels of a result are added to the
\* published lists.
PublishAppendsLevels(p, out) ==
    IF IsRecognized(out)
    THEN [p EXCEPT !.bids = @ \o MapLevels(out.bids),
                   !.asks = @ \o MapLevels(out.asks),
                   !.spread = out.spread,
                   !.midPrice = out.mid_price,
                   !.updateCount = @ + 1,
                   !.checksumValid = TRUE]
    ELSE IF IsChecksumError(out)
         THEN [p EXCEPT !.checksumValid = FALSE]
         ELSE p

\* Faulty variant of the catch block: a checksum failure is treated as a lost
\* connection.
PublishDisconnectsOnChecksum(p, out) ==
    IF IsRecognized(out)
    THEN [p EXCEPT !.bids = MapLevels(out.bids),
                   !.asks = MapLevels(out.asks),
                   !.spread = out.spread,
                   !.midPrice = out.mid_price,
                   !.updateCount = @ + 1,
                   !.checksumValid = TRUE]
    ELSE IF IsChecksumError(out)
         THEN [p EXCEPT !.checksumValid = FALSE, !.connected = FALSE]
         ELSE p

\* The try/catch of processNextMessage: the setters run for one outcome.
Publish(p, out) ==
    IF IsRecognized(out)
    THEN [p EXCEPT !.bids = MapLevels(out.bids),
                   !.asks = MapLevels(out.asks),
                   !.spread = out.spread,
                   !.midPrice = out.mid_price,
                   !.updateCount = @ + 1,
                   !.checksumValid = TRUE]
    ELSE IF IsChecksumError(out)
         THEN [p EXCEPT !.checksumValid = FALSE]
         ELSE p

\* Faulty variant of the finally block: no continuation is scheduled.
RescheduleNever(rest) == FALSE

\* Faulty variant of the call: the flag set on entry is not reset.
ProcessingStaysSet(entered) == entered

\* processingRef.current after a call that set it on entry: the finally block
\* resets it whatever the outcome.
ProcessingAfterCall(entered) == FALSE

\* The finally block: reschedule when messages are left.
Reschedule(rest) == Len(rest) > 0

\* processNextMessage run on queue q with the engine answering out.
\* ran: a message was dequeued and handed to the engine.
ProcessNextMessage(q, out) ==
    IF ~CanProcess(processing, q, bookRef)
    THEN [ran |-> FALSE, msg |-> [id |-> 0, sess |-> 0], queue |-> q,
          pub |-> Pub, sched |-> FALSE]
    ELSE LET d == Shift(q)
         IN  [ran |-> TRUE, msg |-> d.msg, queue |-> d.rest,
              pub |-> Publish(Pub, out), sched |-> Reschedule(d.rest)]

\* React drops state updates of an unmounted component.
SetPub(p) ==
    IF alive
    THEN /\ connected' = p.connected
         /\ bids' = p.bids
         /\ asks' = p.asks
         /\ spread' = p.spread
         /\ midPrice' = p.midPrice
         /\ updateCount' = p.updateCount
         /\ checksumValid' = p.checksumValid
    ELSE UNCHANGED pubs

Ids(q) == [i \in 1..Len(q) |-> q[i].id]
IdSet(q) == { q[i].id : i \in 1..Len(q) }

\* The state after one processNextMessage call made on behalf of session k
\* (the session whose transport callback, or whose continuation, called it),
\* ts being the timers that stay pending.
RunProcessor(q, out, k, ts) ==
    LET r == ProcessNextMessage(q, out)
    IN  /\ r.ran => Len(applied) < MaxCalls
        /\ queue' = r.queue
        /\ processing' = IF r.ran THEN ProcessingAfterCall(TRUE) ELSE processing
        /\ SetPub(r.pub)
        /\ applied' = IF r.ran
                      THEN Append(applied,
                                  [id |-> r.msg.id, sess |-> r.msg.sess,
                                   book |-> bookRef,
                                   released |-> bookState[bookRef] = "freed",
                                   retired |-> ~mounted[k]])
                      ELSE applied
        /\ lastOut' = IF r.ran THEN out ELSE lastOut
        /\ prevCls' = IF r.ran THEN ClassOf(lastOut) ELSE prevCls
        /\ timers' = IF r.sched THEN Append(ts, k) ELSE ts

\* ------------------------------------------------------------ transport

\* The subscribe request ws.onopen of session k sends.  The handler sends it
\* only while the session is live, and the symbol its closure holds is then
\* the one the last session effect ran with.
NoSub == [sess |-> 0, channel |-> "", symbol |-> 0, depth |-> 0]
Subscription(k) ==
    [sess |-> k, channel |-> "book", symbol |-> effectSymbol,
     depth |-> SubscribeDepth]

\* Faulty variant of ws.onopen: no check of the session's liveness flag.
WsOpenUngated(k) ==
    /\ wsPhase[k] = "connecting"
    /\ wsPhase' = [wsPhase EXCEPT ![k] = "open"]
    /\ SetPub([Pub EXCEPT !.connected = TRUE])
    /\ subs' = [subs EXCEPT ![k] = @ + 1]
    /\ lastSub' = Subscription(k)
    /\ UNCHANGED << alive, sdkReady, symbol, effectSymbol, nSessions, mounted,
                    wsCloseCalled, bookState, refs, hist >>

\* WebSocket.onopen of session k.  The open event of a socket whose close()
\* was already called may still be in flight.
WsOpen(k) ==
    /\ wsPhase[k] = "connecting"
    /\ wsPhase' = [wsPhase EXCEPT ![k] = "open"]
    /\ IF mounted[k]
       THEN /\ SetPub([Pub EXCEPT !.connected = TRUE])
            /\ subs' = [subs EXCEPT ![k] = @ + 1]
            /\ lastSub' = Subscription(k)
       ELSE UNCHANGED << pubs, subs, lastSub >>
    /\ UNCHANGED << alive, sdkReady, symbol, effectSymbol, nSessions, mounted,
                    wsCloseCalled, bookState, refs, hist >>

\* Faulty variant of ws.onclose: it logs and leaves the connection state.
WsClosedSilently(k) ==
    /\ wsPhase[k] \in {"connecting", "open"}
    /\ wsPhase' = [wsPhase EXCEPT ![k] = "closed"]
    /\ UNCHANGED << alive, sdkReady, symbol, effectSymbol, nSessions, mounted,
                    wsCloseCalled, subs, lastSub, bookState, refs, pubs, hist >>

\* Faulty variant of ws.onclose: no check of the session's liveness flag.
WsClosedUngated(k) ==
    /\ wsPhase[k] \in {"connecting", "open"}
    /\ wsPhase' = [wsPhase EXCEPT ![k] = "closed"]
    /\ SetPub([Pub EXCEPT !.connected = FALSE])
    /\ UNCHANGED << alive, sdkReady, symbol, effectSymbol, nSessions, mounted,
                    wsCloseCalled, subs, lastSub, bookState, refs, hist >>

\* WebSocket.onclose of session k: after close(), after a failed connect, or
\* when the server drops the connection.  A failing socket fires its error
\* event and its close event in one task; ws.onerror only logs, so the task
\* does what ws.onclose does.
WsClosed(k) ==
    /\ wsPhase[k] \in {"connecting", "open"}
    /\ wsPhase' = [wsPhase EXCEPT ![k] = "closed"]
    /\ IF mounted[k]
       THEN SetPub([Pub EXCEPT !.connected = FALSE])
       ELSE UNCHANGED pubs
    /\ UNCHANGED << alive, sdkReady, symbol, effectSymbol, nSessions, mounted,
                    wsCloseCalled, subs, lastSub, bookState, refs, hist >>

\* Faulty variant of the handler's guard: no check at all.
AcceptsAlways(k) == TRUE

\* Faulty variant of the handler's guard: it looks at the socket, not at the
\* session's liveness flag.
AcceptsWhileOpen(k) == wsPhase[k] = "open"

\* if (!mounted) return      (ws.onmessage)
Accepts(k) == mounted[k]

\* WebSocket.onmessage of session k, then queueMessage and its synchronous
\* processNextMessage.  A message already in flight may still be delivered
\* after close() was called.
WsMessage(k, out) ==
    /\ wsPhase[k] = "open"
    /\ nextMsg <= MaxMsgs
    /\ nextMsg' = nextMsg + 1
    /\ LET m == [id |-> nextMsg, sess |-> k]
       IN  IF Accepts(k)
           THEN LET q1 == QueueAfterPush(queue, m)
                IN  /\ RunProcessor(q1, out, k, timers)
                    /\ discarded' = discarded \cup (IdSet(queue) \ IdSet(q1))
                    /\ UNCHANGED rejected
           ELSE /\ rejected' = rejected \cup {nextMsg}
                /\ UNCHANGED << queue, processing, timers, pubs, applied,
                                lastOut, prevCls, discarded >>
    /\ UNCHANGED << alive, sdkReady, symbol, effectSymbol, sess, wsRef, bookRef,
                    reselected >>

\* A setTimeout(processNextMessage, 0) continuation runs.
DeferredDrain(out) ==
    /\ Len(timers) > 0
    /\ RunProcessor(queue, out, Head(timers), Tail(timers))
    /\ UNCHANGED << alive, sdkReady, symbol, effectSymbol, sess, wsRef, bookRef,
                    nextMsg, discarded, rejected, reselected >>

\* --------------------------------------------------- session controller

\* init().then(() => setSdkReady(true))
InitResolved ==
    /\ alive
    /\ ~sdkReady
    /\ sdkReady' = TRUE
    /\ UNCHANGED << alive, symbol, effectSymbol, sess, refs, pubs, hist >>

\* The session effect has to run: its dependencies changed in the last render.
EffectPending == alive /\ sdkReady /\ effectSymbol # symbol

\* handleSymbolChange(s).  React flushes pending effects before it handles a
\* click, so the handler runs with no effect pending.
HandleSymbolChange(s) ==
    /\ alive
    /\ ~EffectPending
    /\ sdkReady => nSessions < MaxSessions
    /\ s # symbol
    /\ symbol' = s
    /\ UNCHANGED << alive, sdkReady, effectSymbol, sess, refs, pubs, hist >>

\* Faulty variant of the handler: it does not compare with the active
\* instrument and makes the session effect run again.
ReselectSymbolRestarts(s) ==
    /\ alive
    /\ ~EffectPending
    /\ sdkReady => nSessions < MaxSessions
    /\ s = symbol
    /\ effectSymbol' = 0
    /\ reselected' = TRUE
    /\ UNCHANGED << alive, sdkReady, symbol, sess, refs, pubs, nextMsg, applied,
                    lastOut, prevCls, discarded, rejected >>

\* handleSymbolChange(s) with the instrument that is already active: the
\* comparison fails and setSymbol is not called.
ReselectSymbol(s) ==
    /\ alive
    /\ ~EffectPending
    /\ s = symbol
    /\ symbol' = IF s # symbol THEN s ELSE symbol
    /\ reselected' = TRUE
    /\ UNCHANGED << alive, sdkReady, effectSymbol, sess, refs, pubs, nextMsg,
                    applied, lastOut, prevCls, discarded, rejected >>

\* Faulty variant of the close: the transport is left as it is.
CloseNotCalled(f, k) == f

\* Cleanup of the session effect of session k: mounted = false; ws.close().
CleanedUp(f, k) == IF k = 0 THEN f ELSE [f EXCEPT ![k] = FALSE]
CloseCalled(f, k) == IF k = 0 THEN f ELSE [f EXCEPT ![k] = TRUE]

\* bookRef.current.free()
Freed(f, k) ==
    IF k = 0 THEN f
    ELSE [f EXCEPT ![k] = IF @ = "freed" THEN "refreed" ELSE "freed"]

\* Faulty variant of the reset: the counter is left alone.
ResetPubKeepsCounter(p) ==
    [p EXCEPT !.bids = << >>, !.asks = << >>, !.spread = Null, !.midPrice = Null,
              !.checksumValid = TRUE]

\* The published state the session effect sets: the connection state is not
\* among the fields it resets.
ResetPub(p) ==
    [p EXCEPT !.bids = << >>, !.asks = << >>, !.spread = Null, !.midPrice = Null,
              !.updateCount = 0, !.checksumValid = TRUE]

\* The session the last session effect created, 0 before the first.
Current == IF effectSymbol = 0 THEN 0 ELSE nSessions

\* The session effect: cleanup of the previous run, then the body.
SessionEffect ==
    /\ EffectPending
    /\ nSessions < MaxSessions
    /\ LET n == nSessions + 1
       IN  /\ nSessions' = n
           /\ mounted' = [CleanedUp(mounted, Current) EXCEPT ![n] = TRUE]
           /\ wsCloseCalled' = CloseCalled(CloseCalled(wsCloseCalled, Current), wsRef)
           /\ SetPub(ResetPub(Pub))
           /\ discarded' = discarded \cup IdSet(queue)
           /\ queue' = << >>
           /\ processing' = FALSE
           /\ bookState' = [Freed(bookState, bookRef) EXCEPT ![n] = "live"]
           /\ bookRef' = n
           /\ wsPhase' = [wsPhase EXCEPT ![n] = "connecting"]
           /\ wsRef' = n
           /\ effectSymbol' = symbol
    /\ UNCHANGED << alive, sdkReady, symbol, subs, lastSub, timers, nextMsg, applied,
                    lastOut, prevCls, rejected, reselected >>

\* Faulty variant of the unmount: the engine handle is not released.
UnmountKeepsHandle ==
    /\ alive
    /\ ~EffectPending
    /\ alive' = FALSE
    /\ mounted' = CleanedUp(mounted, Current)
    /\ wsCloseCalled' = CloseCalled(CloseCalled(wsCloseCalled, Current), wsRef)
    /\ UNCHANGED << sdkReady, symbol, effectSymbol, nSessions, wsPhase, subs, lastSub,
                    bookState, refs, pubs, hist >>

\* Unmount: the session effect's cleanup, then the unmount effect's cleanup
\* (free the handle, close the socket; neither ref is cleared).
Unmount ==
    /\ alive
    /\ ~EffectPending
    /\ alive' = FALSE
    /\ mounted' = CleanedUp(mounted, Current)
    /\ wsCloseCalled' = CloseCalled(CloseCalled(wsCloseCalled, Current), wsRef)
    /\ bookState' = Freed(bookState, bookRef)
    /\ UNCHANGED << sdkReady, symbol, effectSymbol, nSessions, wsPhase, subs, lastSub,
                    refs, pubs, hist >>

\* ------------------------------------------------------- specifications

NoSession(v) == [k \in Sessions |-> v]

Init ==
    /\ alive = TRUE
    /\ sdkReady = FALSE
    /\ symbol = 1
    /\ effectSymbol = 0
    /\ nSessions = 0
    /\ mounted = NoSession(FALSE)
    /\ wsPhase = NoSession("none")
    /\ wsCloseCalled = NoSession(FALSE)
    /\ subs = NoSession(0)
    /\ lastSub = NoSub
    /\ bookState = NoSession("none")
    /\ wsRef = 0
    /\ bookRef = 0
    /\ queue = << >>
    /\ processing = FALSE
    /\ timers = << >>
    /\ connected = FALSE
    /\ bids = << >>
    /\ asks = << >>
    /\ spread = Null
    /\ midPrice = Null
    /\ updateCount = 0
    /\ checksumValid = TRUE
    /\ nextMsg = 1
    /\ applied = << >>
    /\ lastOut = NoOutcome
    /\ prevCls = "none"
    /\ discarded = {}
    /\ rejected = {}
    /\ reselected = FALSE

Next ==
    \/ InitResolved
    \/ \E s \in Symbols : HandleSymbolChange(s)
    \/ SessionEffect
    \/ Unmount
    \/ \E k \in Sessions : WsOpen(k)
    \/ \E k \in Sessions : WsClosed(k)
    \/ \E k \in Sessions, out \in Outcomes : WsMessage(k, out)

Spec == Init /\ [][Next]_vars

\* The processor driven from any backlog.  processNextMessage and queueMessage
\* read and write only the refs, so the harness starts them from refs drawn from
\* bounded sets: the last session but one (Established) is the active one and
\* its transport is open, the earlier sessions are retired and closed, the
\* queue already holds n messages of the active session (ids 1-n..0, oldest
\* first), and either the engine handle exists and a continuation is pending
\* for the backlog, or bookRef.current is still null (the early return of
\* line 57).  Apart from the empty queue with a live handle these refs are
\* inputs of the two functions, not states the assembled application reaches
\* (there the queue is empty between callbacks): the harness adds states, so
\* it serves to check universally quantified properties of the processor on
\* the branches the application never takes, and no defect of the
\* application is concluded from a behaviour that starts in it.
PrefillLens == (0..MaxPrefill) \cup ((QueueCapacity - MaxPrefill)..QueueCapacity)

Established == MaxSessions - 1

Backlog(n) == [i \in 1..n |-> [id |-> i - n, sess |-> Established]]

QInit ==
    /\ alive = TRUE
    /\ sdkReady = TRUE
    /\ symbol = 1
    /\ effectSymbol = 1
    /\ nSessions = Established
    /\ mounted = [k \in Sessions |-> k = Established]
    /\ wsPhase = [k \in Sessions |-> IF k < Established THEN "closed"
                                     ELSE IF k = Established THEN "open" ELSE "none"]
    /\ wsCloseCalled = [k \in Sessions |-> k < Established]
    /\ subs = [k \in Sessions |-> IF k <= Established THEN 1 ELSE 0]
    /\ lastSub = [sess |-> Established, channel |-> "book", symbol |-> 1,
                  depth |-> SubscribeDepth]
    /\ wsRef = Established
    /\ bookRef \in {0, Established}
    /\ bookState = [k \in Sessions |-> IF k < Established THEN "freed"
                                       ELSE IF k = bookRef THEN "live" ELSE "none"]
    /\ \E n \in PrefillLens :
         /\ queue = Backlog(n)
         /\ timers = IF n > 0 /\ bookRef # 0 THEN << Established >> ELSE << >>
    /\ processing = FALSE
    /\ connected = TRUE
    /\ bids = << >>
    /\ asks = << >>
    /\ spread = Null
    /\ midPrice = Null
    /\ updateCount = 0
    /\ checksumValid = TRUE
    /\ nextMsg = 1
    /\ applied = << >>
    /\ lastOut = NoOutcome
    /\ prevCls = "none"
    /\ discarded = {}
    /\ rejected = {}
    /\ reselected = FALSE

QNext ==
    \/ \E s \in Symbols : HandleSymbolChange(s)
    \/ SessionEffect
    \/ Unmount
    \/ \E k \in Sessions : WsOpen(k)
    \/ \E k \in Sessions : WsClosed(k)
    \/ \E k \in Sessions, out \in Outcomes : WsMessage(k, out)
    \/ \E out \in Outcomes : DeferredDrain(out)

QSpec == QInit /\ [][QNext]_vars

\* The processor with its continuations scheduled fairly: the event loop runs
\* every pending setTimeout callback.  The session is established, its engine
\* handle exists, the first n of the MaxMsgs deliveries are queued and a
\* continuation is pending for them, so that the engine-call bound MaxCalls
\* does not cut a drain short.
LiveInit ==
    /\ alive = TRUE
    /\ sdkReady = TRUE
    /\ symbol = 1
    /\ effectSymbol = 1
    /\ nSessions = Established
    /\ mounted = [k \in Sessions |-> k = Established]
    /\ wsPhase = [k \in Sessions |-> IF k < Established THEN "closed"
                                     ELSE IF k = Established THEN "open" ELSE "none"]
    /\ wsCloseCalled = [k \in Sessions |-> k < Established]
    /\ subs = [k \in Sessions |-> IF k <= Established THEN 1 ELSE 0]
    /\ lastSub = [sess |-> Established, channel |-> "book", symbol |-> 1,
                  depth |-> SubscribeDepth]
    /\ wsRef = Established
    /\ bookRef = Established
    /\ bookState = [k \in Sessions |-> IF k < Established THEN "freed"
                                       ELSE IF k = Established THEN "live" ELSE "none"]
    /\ \E n \in 1..MaxMsgs :
         /\ queue = [i \in 1..n |-> [id |-> i, sess |-> Established]]
         /\ nextMsg = n + 1
    /\ timers = << Established >>
    /\ processing = FALSE
    /\ connected = TRUE
    /\ bids = << >>
    /\ asks = << >>
    /\ spread = Null
    /\ midPrice = Null
    /\ updateCount = 0
    /\ checksumValid = TRUE
    /\ applied = << >>
    /\ lastOut = NoOutcome
    /\ prevCls = "none"
    /\ discarded = {}
    /\ rejected = {}
    /\ reselected = FALSE

LiveSpec ==
    /\ LiveInit
    /\ [][QNext]_vars
    /\ WF_vars(\E out \in Outcomes : DeferredDrain(out))

\* The same, with a user who also selects the instrument that is already
\* active: the selection can then fall on a session with queued messages and
\* a pending continuation.
SelNext ==
    \/ QNext
    \/ \E s \in Symbols : ReselectSymbol(s)

SelSpec == QInit /\ [][SelNext]_vars

\* ------------------------------- the single-instrument App (src/src/App.jsx)
\*
\* One effect, run once at mount: it sets `mounted`, starts connect() and
\* returns the cleanup.  connect() awaits initWasm() and only then creates the
\* engine (session 1's handle, orderbookRef) and the socket (wsRef).

\* ws.onmessage of App.jsx: the try block for one engine answer.  The engine's
\* book after the message is (out.bids, out.asks); get_best_bid/get_best_ask
\* give 0 for an empty side.
BasicPublish(p, out) ==
    IF out.kind = "result" /\ (out.msg_type = "snapshot" \/ out.msg_type = "update")
    THEN LET bestBid == BestPrice(out.bids)
             bestAsk == BestPrice(out.asks)
             priced  == bestBid > 0 /\ bestAsk > 0
         IN  [p EXCEPT !.midPrice = IF priced THEN out.mid_price ELSE @,
                       !.spread = IF priced THEN out.spread ELSE @,
                       !.bids = MapLevels(out.bids),
                       !.asks = MapLevels(out.asks),
                       !.updateCount = @ + 1]
    ELSE p

\* connect() resumes after await initWasm(), whether or not the component is
\* still mounted.
BasicConnect ==
    /\ ~sdkReady
    /\ sdkReady' = TRUE
    /\ nSessions' = 1
    /\ bookRef' = 1
    /\ bookState' = [bookState EXCEPT ![1] = "live"]
    /\ wsPhase' = [wsPhase EXCEPT ![1] = "connecting"]
    /\ wsRef' = 1
    /\ UNCHANGED << alive, symbol, effectSymbol, mounted, wsCloseCalled, subs, lastSub,
                    queue, processing, timers, pubs, hist >>

BasicWsOpen ==
    /\ wsPhase[1] = "connecting"
    /\ wsPhase' = [wsPhase EXCEPT ![1] = "open"]
    /\ IF mounted[1]
       THEN /\ SetPub([Pub EXCEPT !.connected = TRUE])
            /\ subs' = [subs EXCEPT ![1] = @ + 1]
            /\ lastSub' = [sess |-> 1, channel |-> "book", symbol |-> symbol,
                           depth |-> SubscribeDepth]
       ELSE UNCHANGED << pubs, subs, lastSub >>
    /\ UNCHANGED << alive, sdkReady, symbol, effectSymbol, nSessions, mounted,
                    wsCloseCalled, bookState, refs, hist >>

BasicWsMessage(out) ==
    /\ wsPhase[1] = "open"
    /\ nextMsg <= MaxMsgs
    /\ nextMsg' = nextMsg + 1
    /\ IF mounted[1]
       THEN /\ SetPub(BasicPublish(Pub, out))
            /\ applied' = Append(applied,
                                 [id |-> nextMsg, sess |-> 1, book |-> bookRef,
                                  released |-> bookState[bookRef] = "freed",
                                  retired |-> FALSE])
            /\ lastOut' = out
            /\ prevCls' = ClassOf(lastOut)
            /\ UNCHANGED rejected
       ELSE /\ rejected' = rejected \cup {nextMsg}
            /\ UNCHANGED << pubs, applied, lastOut, prevCls >>
    /\ UNCHANGED << alive, sdkReady, symbol, effectSymbol, sess, refs, discarded,
                    reselected >>

BasicWsClosed ==
    /\ wsPhase[1] \in {"connecting", "open"}
    /\ wsPhase' = [wsPhase EXCEPT ![1] = "closed"]
    /\ IF mounted[1]
       THEN SetPub([Pub EXCEPT !.connected = FALSE])
       ELSE UNCHANGED pubs
    /\ UNCHANGED << alive, sdkReady, symbol, effectSymbol, nSessions, mounted,
                    wsCloseCalled, subs, lastSub, bookState, refs, hist >>

\* The effect's cleanup: mounted = false; if (wsRef.current) wsRef.current.close()
BasicUnmount ==
    /\ alive
    /\ alive' = FALSE
    /\ mounted' = [mounted EXCEPT ![1] = FALSE]
    /\ wsCloseCalled' = CloseCalled(wsCloseCalled, wsRef)
    /\ UNCHANGED << sdkReady, symbol, effectSymbol, nSessions, wsPhase, subs, lastSub,
                    bookState, refs, pubs, hist >>

BasicInit ==
    /\ alive = TRUE
    /\ sdkReady = FALSE
    /\ symbol = 1
    /\ effectSymbol = 0
    /\ nSessions = 0
    /\ mounted = [k \in Sessions |-> k = 1]
    /\ wsPhase = NoSession("none")
    /\ wsCloseCalled = NoSession(FALSE)
    /\ subs = NoSession(0)
    /\ lastSub = NoSub
    /\ bookState = NoSession("none")
    /\ wsRef = 0
    /\ bookRef = 0
    /\ queue = << >>
    /\ processing = FALSE
    /\ timers = << >>
    /\ connected = FALSE
    /\ bids = << >>
    /\ asks = << >>
    /\ spread = Null
    /\ midPrice = Null
    /\ updateCount = 0
    /\ checksumValid = TRUE
    /\ nextMsg = 1
    /\ applied = << >>
    /\ lastOut = NoOutcome
    /\ prevCls = "none"
    /\ discarded = {}
    /\ rejected = {}
    /\ reselected = FALSE

BasicNext ==
    \/ BasicConnect
    \/ BasicWsOpen
    \/ \E out \in Outcomes : BasicWsMessage(out)
    \/ BasicWsClosed
    \/ BasicUnmount

BasicSpec == BasicInit /\ [][BasicNext]_vars

\* ------------------------------------------------------------- claims

Last(s) == s[Len(s)]
StrictlyIncreasing(s) == \A i \in 1..(Len(s) - 1) : s[i] < s[i + 1]
AllIds == IdSet(applied) \cup IdSet(queue) \cup discarded \cup rejected
\* The step hands one message to the engine.
EngineCalled == Len(applied') = Len(applied) + 1
\* The outcome classes as the claims state them.
ChecksumFailure(out) == out.kind = "throw" /\ out.hasMessage /\ out.includesChecksum
RecognizedResult(out) == out.kind = "result" /\ out.msg_type \in {"snapshot", "update"}
\* The step is a transport delivery that the handler accepted.
Enqueued == nextMsg' = nextMsg + 1 /\ rejected' = rejected

\* C1: the engine receives the messages in enqueue order, one message per call
\* and never while another call is in progress: the ids handed to the engine,
\* followed by the ids still queued, are strictly increasing (ids number the
\* arrivals); every arrival is accounted for as applied, queued, dropped by the
\* overflow truncation or a queue reset, or refused, with no gap; and the
\* processor is idle whenever control is back with the scheduler.
C1_EngineSeesEnqueueOrder ==
    /\ StrictlyIncreasing(Ids(applied) \o Ids(queue))
    /\ \A i \in AllIds : nextMsg - Cardinality(AllIds) <= i /\ i < nextMsg
    /\ IdSet(applied) \cap (discarded \cup rejected) = {}
    /\ processing = FALSE

\* Two engine calls were made in one session after an overflow truncation, and
\* messages are still queued.
C1_Witness ==
    /\ Len(applied) >= 2
    /\ Cardinality(discarded) > KeepCount
    /\ Len(queue) > 0
    /\ nSessions = Established

\* C2: once a switch has taken effect and before the new session's engine got
\* a message, the queue is empty, the counter is 0, validity is true, the book
\* is empty and spread and mid price are undefined; and every earlier engine
\* handle is released by then.
C2_FreshAfterSwitch ==
    (nSessions >= 2 /\ bookRef = nSessions
       /\ \A i \in 1..Len(applied) : applied[i].book # bookRef)
    => /\ queue = << >>
       /\ updateCount = 0
       /\ checksumValid = TRUE
       /\ bids = << >>
       /\ asks = << >>
       /\ spread = Null
       /\ midPrice = Null
       /\ \A k \in 1..(bookRef - 1) : bookState[k] = "freed"

\* The previous session had published a book and a checksum failure, and the
\* new session has not processed anything yet.
C2_Witness ==
    /\ nSessions >= 2
    /\ bookRef = nSessions
    /\ alive
    /\ Len(applied) = 2
    /\ prevCls = "recognized"
    /\ ChecksumFailure(lastOut)
    /\ \A i \in 1..Len(applied) : applied[i].book # bookRef

\* C3: after two switches in quick succession exactly one session is active, the
\* last one, and a message delivered by a superseded session's transport is
\* never handed to the active engine (nor published): every engine call was
\* made with a message of the session that owns the handle, while that session
\* was active, and refused deliveries never reach an engine.
C3_OnlyLastSessionLive ==
    /\ \A k \in Sessions : mounted[k] => (k = nSessions /\ alive)
    /\ (alive /\ effectSymbol # 0) => mounted[nSessions]
    /\ \A i \in 1..Len(applied) :
         applied[i].sess = applied[i].book /\ ~applied[i].retired
    /\ IdSet(applied) \cap rejected = {}

\* Two switches happened while the first transport was still not closed, a late
\* message of a superseded session was refused and the last session processed
\* one.
C3_Witness ==
    /\ nSessions = 3
    /\ wsPhase[1] = "open"
    /\ wsPhase[2] # "closed"
    /\ rejected # {}
    /\ \E i \in 1..Len(applied) : applied[i].book = 3

\* The published book an engine result stands for: (price, quantity) pairs.
Pairs(levels) == [i \in 1..Len(levels) |-> << levels[i].price, levels[i].qty >>]

\* C4: a message that ends in a checksum failure sets validity to false and
\* leaves bids, asks, spread, mid price and the counter as they were; the next
\* message is still handed to the engine, and when it is a recognized update
\* the book becomes its result, the counter goes up by one and validity is true
\* again.
C4_ChecksumFailureIsNotFatal ==
    [][ /\ (EngineCalled /\ alive /\ ChecksumFailure(lastOut'))
           => /\ checksumValid' = FALSE
              /\ UNCHANGED << bids, asks, spread, midPrice, updateCount >>
        /\ (Enqueued /\ ChecksumFailure(lastOut)) => EngineCalled
        /\ (EngineCalled /\ alive /\ ChecksumFailure(lastOut) /\ RecognizedResult(lastOut'))
           => /\ bids' = Pairs(lastOut'.bids)
              /\ asks' = Pairs(lastOut'.asks)
              /\ spread' = lastOut'.spread
              /\ midPrice' = lastOut'.mid_price
              /\ updateCount' = updateCount + 1
              /\ checksumValid' = TRUE ]_vars

\* A message failed the checksum, and the message after it was a recognized
\* update that changed the book.
C4_Witness ==
    /\ Len(applied) = 2
    /\ prevCls = "checksum"
    /\ RecognizedResult(lastOut)
    /\ checksumValid
    /\ updateCount = 1
    /\ bids # << >>
    /\ asks # << >>

\* C5: an enqueue that makes the queue longer than 100 keeps exactly the 50
\* newest entries, the new one included, in their order, and drops the older
\* ones; an enqueue that does not exceed 100 drops nothing.  (When the processor
\* is idle and an engine exists, the oldest kept entry is handed to the engine
\* in the same call, so the entries kept are that one followed by the queue.)
C5_DropOldestBatch ==
    [][ Enqueued =>
          LET all  == Ids(queue) \o << nextMsg >>
              kept == (IF EngineCalled THEN << Last(applied').id >> ELSE << >>)
                         \o Ids(queue')
          IN  /\ kept = IF Len(all) > 100 THEN SubSeq(all, Len(all) - 49, Len(all))
                        ELSE all
              /\ Len(all) > 100 => Len(kept) = 50
              /\ discarded' = discarded \cup
                                ({all[i] : i \in 1..Len(all)} \ {kept[i] : i \in 1..Len(kept)})
      ]_vars

\* An enqueue onto 100 pending entries left exactly the 50 newest in the queue.
C5_Witness ==
    /\ nextMsg = 2
    /\ Len(queue) = 50
    /\ queue[50].id = 1
    /\ queue[1].id = 0 - 48
    /\ Cardinality(discarded) = 51

\* C6: whenever control is back with the scheduler the queue holds at most 100
\* entries.
C6_QueueBounded == Len(queue) <= 100

\* The queue is full: an enqueue took it from 99 to 100 entries.
C6_Witness == Len(queue) = 100 /\ nextMsg = 2

C8_DisconnectedAfterSwitch ==
    (alive /\ nSessions >= 2 /\ mounted[nSessions] /\ wsPhase[nSessions] = "connecting")
    => ~connected

\* C9: a message the engine reports as irrelevant (no result, or a result that
\* is neither snapshot nor update), or that fails with an error that is not a
\* checksum error, changes no published field, and the processor ends idle.
C9_IgnoredLeavesStateAlone ==
    [][ (EngineCalled /\ ~RecognizedResult(lastOut') /\ ~ChecksumFailure(lastOut'))
          => (UNCHANGED pubs /\ processing' = FALSE) ]_vars

\* A generic error followed a published book, which is still on display.
C9_Witness ==
    /\ Len(applied) = 2
    /\ prevCls = "recognized"
    /\ lastOut.kind = "throw"
    /\ ~ChecksumFailure(lastOut)
    /\ updateCount = 1
    /\ bids # << >>
    /\ checksumValid
    /\ connected

\* C10 (as claimed): after a recognized message, spread and mid price are
\* defined exactly when both sides have a strictly positive best price, and are
\* then those of the new book; otherwise both are undefined.
C10_SpreadMidNeverStale ==
    (Len(applied) > 0 /\ RecognizedResult(lastOut))
    => LET bb == IF Len(lastOut.bids) = 0 THEN 0 ELSE lastOut.bids[1].price
           ba == IF Len(lastOut.asks) = 0 THEN 0 ELSE lastOut.asks[1].price
       IN  IF bb > 0 /\ ba > 0
           THEN spread = Some(ba - bb) /\ midPrice = Some((ba + bb) \div 2)
           ELSE spread = Null /\ midPrice = Null

\* The six published fields are those of the outcome of this step's engine call.
ReflectsOutcome ==
    /\ bids' = Pairs(lastOut'.bids)
    /\ asks' = Pairs(lastOut'.asks)
    /\ spread' = lastOut'.spread
    /\ midPrice' = lastOut'.mid_price
    /\ updateCount' = updateCount + 1
    /\ checksumValid' = TRUE

\* C11 as stated: in every processing step the six published fields (bids,
\* asks, spread, mid price, update counter, validity) either all take the
\* values of that step's outcome or none of them changes.
C11_AllSixOrNone ==
    [][(EngineCalled /\ alive)
         => \/ ReflectsOutcome
            \/ UNCHANGED << bids, asks, spread, midPrice, updateCount,
                            checksumValid >>]_vars

\* C11 amended: in every processing step either all six published fields take
\* the values of that step's outcome, or bids, asks, spread, mid price and the
\* update counter all stay as they were and the validity flag alone is set to
\* false when the outcome is a checksum failure (and stays otherwise).
C11_SnapshotAllOrNothing ==
    [][(EngineCalled /\ alive)
         => \/ ReflectsOutcome
            \/ /\ UNCHANGED << bids, asks, spread, midPrice, updateCount >>
               /\ checksumValid' = (checksumValid /\ ~ChecksumFailure(lastOut'))]_vars

\* An engine call that raised an error came after a published snapshot and
\* left every field of it in place.
C11_Witness ==
    /\ alive
    /\ Len(applied) >= 2
    /\ prevCls = "recognized"
    /\ lastOut.kind = "throw" /\ ~ChecksumFailure(lastOut)
    /\ bids = Pairs(FullBids)
    /\ asks = Pairs(FullAsks)
    /\ spread # Null
    /\ updateCount = 1
    /\ checksumValid = TRUE

\* C12: the update counter is never negative; while the controller is mounted,
\* a step that starts a session sets it to 0, a step that applies a recognized
\* update or snapshot adds exactly 1, and every other step (a checksum
\* failure, an ignored or malformed message, a transport event) leaves it as it
\* is.  By induction over the steps of a session the counter equals the number
\* of recognized messages processed since the session began.
C12_CounterCountsRecognized ==
    [][/\ updateCount >= 0
       /\ alive =>
            updateCount' =
              IF nSessions' # nSessions THEN 0
              ELSE IF EngineCalled /\ RecognizedResult(lastOut')
                   THEN updateCount + 1
                   ELSE updateCount]_vars

\* A recognized message was counted in one session, a switch reset the counter,
\* and the new session has counted its first recognized message.
C12_Witness ==
    /\ alive
    /\ Len(applied) = 2
    /\ applied[1].book = Established
    /\ applied[2].book = Established + 1
    /\ prevCls = "recognized"
    /\ RecognizedResult(lastOut)
    /\ updateCount = 1

\* C13: selecting the instrument that is already active changes nothing: the
\* step leaves the selected instrument, the session (engine handles,
\* transports, subscriptions sent), the refs (queue, processing flag,
\* continuations), every published field and the engine-call history as they
\* were, and leaves no session effect pending, so that doing it any number of
\* times is the same as not doing it.
C13_ReselectIsNoOp ==
    [][(reselected' /\ ~reselected)
         => /\ UNCHANGED << alive, sdkReady, symbol, effectSymbol, sess, refs,
                            pubs, nextMsg, applied, lastOut, prevCls, discarded,
                            rejected >>
            /\ ~EffectPending']_vars

\* The active instrument was selected again in a session that is connected,
\* subscribed, has published a book and has messages queued.
C13_Witness ==
    /\ reselected
    /\ alive
    /\ nSessions >= 1
    /\ bookState[nSessions] = "live"
    /\ wsPhase[nSessions] = "open"
    /\ subs[nSessions] = 1
    /\ connected
    /\ updateCount >= 1
    /\ Len(queue) > 0
    /\ Len(timers) > 0
    /\ symbol = effectSymbol

\* C14: whenever the transport of the active session of a mounted controller
\* has closed (after an error, a failed connect or an unexpected close), the
\* published connection state is disconnected, and the controller has created
\* no other transport: the closed one is still the one it refers to and no
\* later session exists until a switch is requested.
C14_FailureShowsDisconnected ==
    (alive /\ Current # 0 /\ mounted[Current] /\ wsPhase[Current] = "closed")
    => /\ connected = FALSE
       /\ wsRef = Current
       /\ \A k \in Sessions : k > Current => wsPhase[k] = "none"
       /\ \A k \in Sessions : k < Current => wsCloseCalled[k]

\* The active session's transport had opened and was subscribed, then closed
\* without close() having been called, and the controller shows disconnected.
C14_Witness ==
    /\ alive
    /\ Current # 0
    /\ mounted[Current]
    /\ wsPhase[Current] = "closed"
    /\ ~wsCloseCalled[Current]
    /\ subs[Current] = 1
    /\ updateCount >= 1
    /\ connected = FALSE

\* C15: in every state at most one engine handle is constructed and not
\* released and at most one transport is created and not told to close; and
\* once a session exists, every earlier session's handle is not live, its
\* transport was told to close, its callbacks are retired, and the queue
\* holds no message of it.
C15_OneHandleOneTransport ==
    /\ Cardinality({k \in Sessions : bookState[k] = "live"}) <= 1
    /\ Cardinality({k \in Sessions : wsPhase[k] # "none" /\ ~wsCloseCalled[k]}) <= 1
    /\ \A k \in Sessions :
         k < nSessions => /\ bookState[k] # "live"
                          /\ wsCloseCalled[k]
                          /\ ~mounted[k]
    /\ \A i \in 1..Len(queue) : queue[i].sess = nSessions

\* A switch was made while messages were queued: the old session's handle is
\* released, its transport told to close, its messages dropped, and the new
\* session has its handle and its transport.
C15_Witness ==
    /\ alive
    /\ nSessions = Established + 1
    /\ bookState[Established] = "freed"
    /\ wsCloseCalled[Established]
    /\ 0 \in discarded
    /\ bookState[nSessions] = "live"
    /\ wsPhase[nSessions] = "open"
    /\ Len(applied) >= 1
    /\ Last(applied).book = nSessions

\* C16: free() is called exactly once on every engine handle that was
\* constructed: no handle is released twice; a handle that is not released
\* is the one the mounted controller refers to, so that after teardown every
\* constructed handle is released; and no engine call was made on a handle
\* after its release.
C16_ReleasedExactlyOnce ==
    /\ \A k \in Sessions : bookState[k] # "refreed"
    /\ \A k \in Sessions : bookState[k] = "live" => (alive /\ bookRef = k)
    /\ ~alive => \A k \in 1..nSessions : bookState[k] = "freed"
    /\ \A i \in 1..Len(applied) : ~applied[i].released

\* Teardown after the last of several switches, with engine calls made on the
\* way: every handle constructed is released.
C16_Witness ==
    /\ ~alive
    /\ nSessions = MaxSessions
    /\ \A k \in Sessions : bookState[k] = "freed"
    /\ Len(applied) >= 2
    /\ applied[1].book # applied[2].book

\* C17: no session sends more than one subscription; a subscription is sent
\* only in the step in which that session's transport signals open, only while
\* the session is the active one, and it names the book channel, the active
\* session's instrument and depth 25; the transport of a retired session that
\* opens late sends nothing.
C17_SubscribeOncePerLiveSession ==
    [][/\ \A k \in Sessions : subs[k] <= 1
       /\ \A k \in Sessions :
            subs'[k] # subs[k]
            => /\ subs'[k] = 1
               /\ wsPhase[k] = "connecting" /\ wsPhase'[k] = "open"
               /\ mounted[k] /\ k = Current
               /\ lastSub' = [sess |-> k, channel |-> "book",
                              symbol |-> effectSymbol, depth |-> 25]
       /\ \A k \in Sessions :
            (wsPhase[k] = "connecting" /\ wsPhase'[k] = "open" /\ ~mounted[k])
            => (subs'[k] = subs[k] /\ lastSub' = lastSub)
       /\ lastSub' # lastSub => \E k \in Sessions : subs'[k] # subs[k]]_vars

\* The first session was retired before its transport opened; the transport
\* opened late and sent nothing, and the second session subscribed to its own
\* instrument.
C17_Witness ==
    /\ nSessions = 2
    /\ wsPhase[1] = "open"
    /\ subs[1] = 0
    /\ wsPhase[2] = "open"
    /\ subs[2] = 1
    /\ lastSub = [sess |-> 2, channel |-> "book", symbol |-> 2, depth |-> 25]
    /\ effectSymbol = 2

\* C18: after a recognized message the published bids and asks are exactly the
\* engine result's level lists as (price, quantity) pairs in the engine's
\* order, and the published spread and mid price are the result's; they
\* replace what was published before.  A recognized result equal to the one
\* of the preceding call of the same session therefore leaves the published
\* bids, asks, spread and mid price as they are.
C18_PublicationIsProjection ==
    [][(EngineCalled /\ alive /\ RecognizedResult(lastOut'))
         => /\ bids' = Pairs(lastOut'.bids)
            /\ asks' = Pairs(lastOut'.asks)
            /\ spread' = lastOut'.spread
            /\ midPrice' = lastOut'.mid_price
            /\ (Len(applied) > 0 /\ Last(applied).book = bookRef
                  /\ lastOut' = lastOut)
               => UNCHANGED << bids, asks, spread, midPrice >>]_vars

\* Two recognized results in one session, the first with a one-sided book
\* and the second with the full book: the lists published are the second's.
C18_Witness ==
    /\ alive
    /\ Len(applied) = 2
    /\ applied[1].book = applied[2].book
    /\ prevCls = "recognized"
    /\ RecognizedResult(lastOut)
    /\ lastOut.bids = FullBids
    /\ bids = << <<100, 2>>, <<98, 1>> >>
    /\ asks = << <<102, 3>> >>
    /\ updateCount = 2

\* C19: every step (one callback or one continuation) hands at most one
\* message to the engine and takes it from the head of the queue; when
\* messages are left after the call, a continuation scheduled by that call is
\* pending for them, and they stay queued until a later step.
C19_OneMessagePerTurn ==
    [][/\ Len(applied') <= Len(applied) + 1
       /\ EngineCalled
          => /\ Last(applied').id \notin IdSet(queue')
             /\ \A i \in 1..Len(queue') : queue'[i].id > Last(applied').id
             /\ Len(queue') > 0
                => (Len(timers') > 0 /\ Len(timers') >= Len(timers))]_vars

\* Two messages of a backlog were applied in two turns, a delivery and a close
\* event of the transport came in between or after, and the rest of the
\* backlog is still queued with a continuation pending.
C19_Witness ==
    /\ alive
    /\ nSessions = Established
    /\ Len(applied) = 2
    /\ applied[1].id < applied[2].id
    /\ applied[2].id <= 0
    /\ nextMsg = 2
    /\ wsPhase[Established] = "closed"
    /\ Len(queue) > 0
    /\ Len(timers) > 0

\* C20: the processor is idle again after every step, whatever the outcome of
\* the message; and when pending continuations are run fairly, every message
\* that is in the queue is eventually applied or discarded, and the queue is
\* eventually empty for good once deliveries have stopped.
C20_QueueDrains ==
    /\ [](processing = FALSE)
    /\ \A i \in 1..MaxMsgs :
         (i \in IdSet(queue)) ~> (i \in IdSet(applied) \cup discarded)
    /\ <>[](queue = << >> /\ timers = << >>)

\* Every delivery was applied, none was discarded, the last call raised an
\* error, and the processor is idle with nothing queued or pending.
C20_Witness ==
    /\ alive
    /\ nSessions = Established
    /\ IdSet(applied) = 1..MaxMsgs
    /\ discarded = {}
    /\ lastOut.kind = "throw"
    /\ processing = FALSE
    /\ queue = << >>
    /\ timers = << >>

\* C21: a step in which the processor hands a message to the engine, whatever
\* the outcome, leaves the lifecycle as it was: the engine handle referred to
\* and the state of every handle, the transport referred to and the state of
\* every transport, the sessions and their liveness flags, the selected
\* instrument and the published connection state.
C21_ProcessingLeavesLifecycle ==
    [][EngineCalled
         => UNCHANGED << bookRef, bookState, wsRef, wsPhase, wsCloseCalled,
                         nSessions, mounted, subs, lastSub, symbol, effectSymbol,
                         sdkReady, alive, connected >>]_vars

\* A checksum failure and then a recognized result were processed in one
\* session: the session is still connected, with the same handle and the same
\* open transport.
C21_Witness ==
    /\ alive
    /\ nSessions = Established
    /\ Len(applied) = 2
    /\ prevCls = "checksum"
    /\ RecognizedResult(lastOut)
    /\ connected = TRUE
    /\ bookRef = Established
    /\ bookState[Established] = "live"
    /\ wsRef = Established
    /\ wsPhase[Established] = "open"

\* C22: in the single-instrument App, once the component is torn down every
\* transport that exists (connecting or open) has been told to close, whether
\* teardown came before or after the engine initialisation resolved.
C22_TeardownClosesTransport ==
    ~alive => \A k \in Sessions :
                wsPhase[k] \in {"connecting", "open"} => wsCloseCalled[k]

\* C23: an open or close event of the transport of a retired session (one
\* superseded by a switch, or any after teardown) leaves the published
\* connection state as it is; the connection state changes only in a step in
\* which the transport of the active session opens or closes, to connected on
\* open and to disconnected on close.
C23_LateEventsIgnored ==
    [][/\ \A k \in Sessions :
            (wsPhase[k] # "none" /\ wsPhase'[k] # wsPhase[k] /\ ~mounted[k])
            => connected' = connected
       /\ connected' # connected
          => \E k \in Sessions :
               /\ k = Current /\ mounted[k]
               /\ wsPhase[k] # "none" /\ wsPhase'[k] # wsPhase[k]
               /\ connected' = (wsPhase'[k] = "open")]_vars

\* The first session was retired by a switch before its transport opened; the
\* transport opened late while the second session's transport is still
\* connecting, and the controller does not show connected.
C23_Witness ==
    /\ alive
    /\ nSessions = 2
    /\ ~mounted[1]
    /\ wsPhase[1] = "open"
    /\ subs[1] = 0
    /\ mounted[2]
    /\ wsPhase[2] = "connecting"
    /\ connected = FALSE

\* C24: in the application, whenever control is back with the scheduler the
\* queue is empty and no continuation is pending; no message was ever dropped
\* by the overflow truncation or by a queue reset; and an enqueue made now
\* would bring the queue to exactly one entry, below the capacity at which
\* the truncation branch is taken.
C24_QueueEmptyBetweenCallbacks ==
    /\ queue = << >>
    /\ timers = << >>
    /\ discarded = {}
    /\ processing = FALSE
    /\ LET q1 == QueueAfterPush(queue, [id |-> nextMsg, sess |-> Current])
       IN  Len(q1) = 1 /\ Len(queue) + 1 <= QueueCapacity

\* Every delivery so far was accepted and handed to the engine in the call
\* that enqueued it.
C24_Witness ==
    /\ alive
    /\ bookRef # 0
    /\ Len(applied) >= 2
    /\ nextMsg = Len(applied) + 1
    /\ rejected = {}
    /\ queue = << >>
    /\ timers = << >>

====
